---- MODULE Spec2Model ----
(***************************************************************************)
(* Strategy generation pipeline of services/strategy/generate.py:          *)
(* StrategyGenerator.generate_strategy, _generate_mock_strategy,           *)
(* validate_strategy, save_strategy and the batch loop of main().          *)
(*                                                                         *)
(* Text is a sequence of tokens.  A token is either whitespace only (NL,   *)
(* SP) or holds no whitespace, the fence token is the three backticks, and *)
(* no token is a proper prefix of another, so that in, startswith,         *)
(* split and strip on the concatenated characters are the same operations  *)
(* on the token sequence.                                                  *)
(***************************************************************************)
EXTENDS Integers, Sequences, FiniteSets, TLC

VARIABLES client, clock, files, pc, i, strategy, validation, outcomes, calls, args, io

vars == <<client, clock, files, pc, i, strategy, validation, outcomes, calls, args, io>>

-----------------------------------------------------------------------------
(* Bounds of the model *)

MaxGenChunks == 4

MaxValChunks == 3

MaxCalls == 3

-----------------------------------------------------------------------------
(* Text *)

\* the three-backtick fence, one token
FENCE == "<fence>"
NL == "\n"
SP == " "

Whitespace == {NL, SP}

\* python: marker in code
Contains(code, marker) ==
    \E k \in 0..(Len(code) - Len(marker)) :
        SubSeq(code, k + 1, k + Len(marker)) = marker

\* python: code.startswith(word), word a single token
StartsWith(code, word) == Len(code) > 0 /\ code[1] = word

\* index of the first occurrence of tok in code, 0 when there is none
FirstIndex(code, tok) ==
    IF \E k \in 1..Len(code) : code[k] = tok
    THEN CHOOSE k \in 1..Len(code) :
             code[k] = tok /\ \A j \in 1..(k - 1) : code[j] # tok
    ELSE 0

\* python: code.split(sep)[1], defined when sep occurs in code
SplitSecond(code, sep) ==
    LET rest == SubSeq(code, FirstIndex(code, sep) + 1, Len(code))
        nxt == FirstIndex(rest, sep)
    IN  IF nxt = 0 THEN rest ELSE SubSeq(rest, 1, nxt - 1)

\* python: "\n".join(code.split("\n")[1:])
DropFirstLine(code) ==
    LET nl == FirstIndex(code, NL)
    IN  IF nl = 0 THEN <<>> ELSE SubSeq(code, nl + 1, Len(code))

\* python: code.strip()
Strip(code) ==
    IF \A k \in 1..Len(code) : code[k] \in Whitespace
    THEN <<>>
    ELSE LET first == CHOOSE k \in 1..Len(code) :
                 code[k] \notin Whitespace /\ \A j \in 1..(k - 1) : code[j] \in Whitespace
             last == CHOOSE k \in 1..Len(code) :
                 code[k] \notin Whitespace /\ \A j \in (k + 1)..Len(code) : code[j] \in Whitespace
         IN  SubSeq(code, first, last)

RECURSIVE Flatten(_)
Flatten(chunks) ==
    IF chunks = <<>> THEN <<>> ELSE Head(chunks) \o Flatten(Tail(chunks))

\* all texts made of at most n chunks of the set
TextsOf(chunkSet, n) ==
    { Flatten(cs) : cs \in UNION { [1..m -> chunkSet] : m \in 0..n } }

-----------------------------------------------------------------------------
(* _generate_mock_strategy *)

\* the Python template with the per-tick handler left out
PythonTemplateNoOnData(description) ==
    <<"from", SP, "AlgorithmImports", SP, "import", SP, "*", NL, NL,
      "class", SP, "GeneratedStrategy", "(", "QCAlgorithm", ")", ":", NL,
      "doc", NL, "Auto-generated", NL, "Description:", SP>>
    \o description \o
    <<NL, "doc", NL, NL,
      "def", SP, "Initialize", "(", "self", ")", ":", NL, "body", NL>>

PythonTemplate(description) ==
    <<"from", SP, "AlgorithmImports", SP, "import", SP, "*", NL, NL,
      "class", SP, "GeneratedStrategy", "(", "QCAlgorithm", ")", ":", NL,
      "doc", NL, "Auto-generated", NL, "Description:", SP>>
    \o description \o
    <<NL, "doc", NL, NL,
      "def", SP, "Initialize", "(", "self", ")", ":", NL, "body", NL, NL,
      "def", SP, "OnData", "(", "self", ",", SP, "data", ")", ":", NL, "body", NL>>

CSharpTemplate(description) ==
    <<"//", SP, "Auto-generated", NL, "//", SP, "Description:", SP>>
    \o description \o
    <<NL, NL, "namespace", SP, "QuantConnect.Algorithm.CSharp", NL, "{", NL,
      "public", SP, "class", SP, "GeneratedStrategy", SP, ":", SP, "QCAlgorithm", NL, "{", NL,
      "public", SP, "override", SP, "void", SP, "Initialize", "(", ")", NL,
      "{", NL, "body", NL, "}", NL, NL,
      "public", SP, "override", SP, "void", SP, "OnData", "(", "Slice", SP, "data", ")", NL,
      "{", NL, "body", NL, "}", NL, "}", NL, "}">>

Artifact(code, prompt, language, now) ==
    [code |-> code, description |-> prompt, language |-> language, timestamp |-> now]

_generate_mock_strategy(prompt, language, now) ==
    Artifact(IF language = "python" THEN PythonTemplate(prompt) ELSE CSharpTemplate(prompt),
             prompt, language, now)

-----------------------------------------------------------------------------
(* generate_strategy *)

\* "Clean up code blocks if present"
CleanCodeBlock(code) ==
    IF Contains(code, <<FENCE>>)
    THEN LET block == SplitSecond(code, FENCE)
         IN  IF StartsWith(block, "python") \/ StartsWith(block, "csharp")
             THEN DropFirstLine(block)
             ELSE block
    ELSE code

\* hasClient: self.client is set.  response: what messages.create does,
\* kind "raises" (the call raises), "nocontent" (message.content is empty,
\* content[0] raises) or "text" (content[0].text is response.text).
generate_strategy(hasClient, prompt, language, response, now) ==
    IF ~hasClient
    THEN _generate_mock_strategy(prompt, language, now)
    ELSE IF response.kind = "text"
         THEN Artifact(Strip(CleanCodeBlock(response.text)), prompt, language, now)
         ELSE _generate_mock_strategy(prompt, language, now)

\* which branch of generate_strategy returned
GeneratePath(hasClient, response) ==
    IF ~hasClient THEN "mock"
    ELSE IF response.kind = "text" THEN "service" ELSE "except"

-----------------------------------------------------------------------------
(* validate_strategy *)

FreshResults == [valid |-> TRUE, errors |-> <<>>, warnings |-> <<>>, score |-> 100]

MarkerAlgorithmImports == <<"AlgorithmImports">>
MarkerQCAlgorithm      == <<"QCAlgorithm">>
MarkerDefInitialize    == <<"def", SP, "Initialize", "(">>
MarkerDefOnData        == <<"def", SP, "OnData", "(">>
MarkerInitializeCall   == <<"Initialize", "(", ")">>

\* the error is recorded but the report is not marked invalid
AddErrorKeepValid(results, msg) ==
    [results EXCEPT !.errors = Append(@, msg)]

AddError(results, msg) ==
    [results EXCEPT !.errors = Append(@, msg), !.valid = FALSE]

\* python: "Check for required imports"
RuleImports(results, code) ==
    IF ~Contains(code, MarkerAlgorithmImports) /\ ~Contains(code, MarkerQCAlgorithm)
    THEN AddError(results, "Missing QuantConnect imports")
    ELSE results

\* the method check chained to the import check with elif
RuleInitializeElif(results, code) ==
    IF results.errors # <<>>
    THEN results
    ELSE IF ~Contains(code, <<"def", SP, "Initialize", "(">>)
         THEN [results EXCEPT !.errors = Append(@, "Missing Initialize method"),
                              !.valid = FALSE]
         ELSE results

\* python: "Check for required methods"
RuleInitialize(results, code) ==
    IF ~Contains(code, MarkerDefInitialize)
    THEN AddError(results, "Missing Initialize method")
    ELSE results

\* the warning deducts 10 instead of 20
RuleOnDataTen(results, code) ==
    IF ~Contains(code, <<"def", SP, "OnData", "(">>)
    THEN [results EXCEPT !.warnings = Append(@, "Missing OnData method"),
                         !.score = @ - 10]
    ELSE results

RuleOnData(results, code) ==
    IF ~Contains(code, MarkerDefOnData)
    THEN [results EXCEPT !.warnings = Append(@, "Missing OnData method"),
                         !.score = @ - 20]
    ELSE results

\* csharp
RuleBaseClass(results, code) ==
    IF ~Contains(code, MarkerQCAlgorithm)
    THEN AddError(results, "Missing QCAlgorithm base class")
    ELSE results

RuleInitializeCs(results, code) ==
    IF ~Contains(code, MarkerInitializeCall)
    THEN AddError(results, "Missing Initialize method")
    ELSE results

\* Outcomes of temp_file.write_text / filepath.write_text: "ok"; "fail", it
\* raises before the file is opened; "partial", it raises after the file was
\* created or truncated.
WriteOutcomes == {"ok", "fail", "partial"}

\* Outcomes of subprocess.run(["pylint", ...], timeout=10): the tool is
\* missing (raises), exits 0, exits non-zero, or times out (raises).
LintOutcomes == {"missing", "zero", "nonzero", "timeout"}

\* "Try pylint if available": the try body; the except clause swallows
\* every exception
LintStep(results, wr, lint) ==
    IF wr = "ok" /\ lint = "nonzero"
    THEN [results EXCEPT !.warnings = Append(@, "Linting issues found")]
    ELSE results

\* the report validate_strategy returns
validate_strategy(code, language, wr, lint) ==
    IF language = "python"
    THEN LintStep(RuleOnData(RuleInitialize(RuleImports(FreshResults, code), code), code),
                  wr, lint)
    ELSE IF language = "csharp"
         THEN RuleInitializeCs(RuleBaseClass(FreshResults, code), code)
         ELSE FreshResults

-----------------------------------------------------------------------------
(* The output directory *)

output_dir == "/app/generated/"

temp_file == output_dir \o "temp_validate.py"

SourceFile(text) == [kind |-> "source", text |-> text]

\* a file whose write raised after it was created or truncated
Truncated == [kind |-> "truncated"]

\* python: path.write_text(content)
WriteText(fs, path, content, outcome) ==
    IF outcome = "ok" THEN [p \in DOMAIN fs \cup {path} |-> IF p = path THEN content ELSE fs[p]]
    ELSE IF outcome = "partial"
         THEN [p \in DOMAIN fs \cup {path} |-> IF p = path THEN Truncated ELSE fs[p]]
         ELSE fs

\* python: path.unlink()
Unlink(fs, path) == [p \in DOMAIN fs \ {path} |-> fs[p]]

\* the removal placed at the end of the try body instead of in finally
ValidateFilesNoFinally(fs, code, language, wr, lint) ==
    IF language = "python"
    THEN LET written == WriteText(fs, output_dir \o "temp_validate.py",
                                  [kind |-> "source", text |-> code], wr)
         IN  IF wr = "ok" /\ lint \in {"zero", "nonzero"}
             THEN [p \in DOMAIN written \ {output_dir \o "temp_validate.py"} |-> written[p]]
             ELSE written
    ELSE fs

\* the output directory after validate_strategy: the try body writes the
\* temporary file and runs the tool, the finally clause removes the file
\* whether or not the body raised
ValidateFiles(fs, code, language, wr, lint) ==
    IF language = "python"
    THEN LET written == WriteText(fs, temp_file, SourceFile(code), wr)
         IN  IF temp_file \in DOMAIN written THEN Unlink(written, temp_file) ELSE written
    ELSE fs

-----------------------------------------------------------------------------
(* save_strategy *)

ext(language) == IF language = "python" THEN "py" ELSE "cs"

filepath(filename, language) == output_dir \o filename \o "." \o ext(language)

meta_path(filename) == output_dir \o filename \o ".json"

MetaFile(artifact, target) ==
    [kind |-> "meta", description |-> artifact.description, language |-> artifact.language,
     timestamp |-> artifact.timestamp, filename |-> target]

\* what the two write_text calls of save_strategy do: the second one is
\* reached only when the first one returned
SaveOutcomes ==
    { [src |-> s, meta |-> m] : s \in {"ok"}, m \in WriteOutcomes }
    \cup { [src |-> s, meta |-> "-"] : s \in {"fail", "partial"} }

SaveRaises(save) == save.src # "ok" \/ save.meta # "ok"

\* the output directory after save_strategy
save_strategy(fs, artifact, filename, save) ==
    LET target == filepath(filename, artifact.language)
        afterSource == WriteText(fs, target, SourceFile(artifact.code), save.src)
    IN  IF save.src # "ok"
        THEN afterSource
        ELSE WriteText(afterSource, meta_path(filename), MetaFile(artifact, target),
                       save.meta)

-----------------------------------------------------------------------------
(* main: the batch loop *)

prompts ==
    << <<"momentum", SP, "RSI">>, <<"mean", SP, "reversion">>, <<"trend", SP, "MACD">> >>

\* python: f"strategy_{i}"
Stem(k) == "strategy_" \o ToString(k)

\* the writer called whatever the report says
ShouldSaveAlways(report) == TRUE

\* python: if validation["valid"]
ShouldSave(report) == report.valid

Saved(path, score) == [kind |-> "Saved", path |-> path, score |-> score, errors |-> <<>>]

Rejected(errors) == [kind |-> "Rejected", path |-> "", score |-> 0, errors |-> errors]

-----------------------------------------------------------------------------
(* Inputs *)

Raises == [kind |-> "raises", text |-> <<>>]

NoContent == [kind |-> "nocontent", text |-> <<>>]

TextResponse(text) == [kind |-> "text", text |-> text]

GenChunks == { <<FENCE>>, <<"python">>, <<"csharp">>, <<NL>>, <<SP>>, <<"x">> }

GenTexts == TextsOf(GenChunks, MaxGenChunks)

GenResponses == {Raises, NoContent} \cup { TextResponse(t) : t \in GenTexts }

GenPrompts == { <<>>, <<"momentum">>, <<FENCE, "python", NL, "{", "}">> }

Dialects == {"python", "csharp"}

ValChunks ==
    { MarkerAlgorithmImports, MarkerQCAlgorithm, MarkerDefInitialize, MarkerDefOnData,
      MarkerInitializeCall, <<"def", SP>>, <<"Initialize">>, <<"(">>, <<")">> }

ValTexts == TextsOf(ValChunks, MaxValChunks)

Languages == Dialects \cup {"java"}

\* service answers of the batch run: nothing, a whole strategy, one without
\* OnData, one without Initialize, a fenced strategy, a fenced tag alone
DriverTexts ==
    { <<>>,
      MarkerAlgorithmImports \o <<NL>> \o MarkerDefInitialize \o <<NL>> \o MarkerDefOnData,
      MarkerQCAlgorithm \o <<NL>> \o MarkerDefInitialize,
      MarkerAlgorithmImports \o <<NL>> \o MarkerDefOnData,
      <<FENCE, "python", NL>> \o MarkerQCAlgorithm \o <<NL>> \o MarkerDefInitialize
          \o <<NL, FENCE>>,
      <<FENCE, "python", FENCE>> }

DriverResponses == {Raises, NoContent} \cup { TextResponse(t) : t \in DriverTexts }

NoArgs == [prompt |-> <<>>, language |-> "", response |-> Raises, code |-> <<>>]

NoIo == [path |-> "-", lint |-> "-", wr |-> "-", save |-> [src |-> "-", meta |-> "-"]]

NoStrategy == Artifact(<<>>, <<>>, "", 0)

\* a record left in the output directory by an earlier run
StaleFiles ==
    (filepath(Stem(1), "python") :> SourceFile(<<"old">>))
    @@ (meta_path(Stem(1)) :> MetaFile(Artifact(<<"old">>, <<"old">>, "python", 0),
                                      filepath(Stem(1), "python")))

EmptyDir == [p \in {} |-> Truncated]

-----------------------------------------------------------------------------
(* The batch run: main() *)

Init ==
    /\ client \in BOOLEAN
    /\ clock = 1
    /\ files \in {EmptyDir, StaleFiles}
    /\ pc = "loop"
    /\ i = 1
    /\ strategy = NoStrategy
    /\ validation = FreshResults
    /\ outcomes = <<>>
    /\ calls = <<>>
    /\ args = NoArgs
    /\ io = NoIo

\* one iteration of the for loop
MainStep ==
    /\ pc = "loop"
    /\ i <= Len(prompts)
    /\ \E response \in (IF client THEN DriverResponses ELSE {Raises}),
          wr \in WriteOutcomes, lint \in LintOutcomes, save \in SaveOutcomes :
         LET artifact == generate_strategy(client, prompts[i], "python", response, clock)
             report == validate_strategy(artifact.code, artifact.language, wr, lint)
             validated == ValidateFiles(files, artifact.code, artifact.language, wr, lint)
             saved == filepath(Stem(i), artifact.language)
         IN  /\ strategy' = artifact
             /\ validation' = report
             /\ clock' = clock + 1
             /\ IF ShouldSave(report)
                THEN /\ files' = save_strategy(validated, artifact, Stem(i), save)
                     /\ calls' = <<"generate_strategy", "validate_strategy", "save_strategy">>
                     /\ io' = [path |-> GeneratePath(client, response), lint |-> lint,
                               wr |-> wr, save |-> save]
                     /\ IF SaveRaises(save)
                        THEN pc' = "crashed" /\ UNCHANGED <<i, outcomes>>
                        ELSE /\ outcomes' = Append(outcomes, Saved(saved, report.score))
                             /\ i' = i + 1
                             /\ pc' = "loop"
                ELSE /\ files' = validated
                     /\ calls' = <<"generate_strategy", "validate_strategy">>
                     /\ io' = [path |-> GeneratePath(client, response), lint |-> lint,
                               wr |-> wr, save |-> NoIo.save]
                     /\ outcomes' = Append(outcomes, Rejected(report.errors))
                     /\ i' = i + 1
                     /\ pc' = "loop"
    /\ UNCHANGED <<client, args>>

\* the loop is exhausted: the closing summary
MainFinish ==
    /\ pc = "loop"
    /\ i > Len(prompts)
    /\ pc' = "done"
    /\ UNCHANGED <<client, clock, files, i, strategy, validation, outcomes, calls, args, io>>

Next == MainStep \/ MainFinish

Spec == Init /\ [][Next]_vars

-----------------------------------------------------------------------------
(* generate_strategy called on any prompt, dialect and service behaviour,  *)
(* then validate_strategy on what it returned                              *)

InitGen ==
    /\ client \in BOOLEAN
    /\ clock = 1
    /\ files = EmptyDir
    /\ pc = "call"
    /\ i = 0
    /\ strategy = NoStrategy
    /\ validation = FreshResults
    /\ outcomes = <<>>
    /\ calls = <<>>
    /\ args \in { [prompt |-> p, language |-> l, response |-> r, code |-> <<>>] :
                    p \in GenPrompts, l \in Dialects,
                    r \in (IF client THEN GenResponses ELSE {Raises}) }
    /\ io = NoIo

GenerateCall ==
    /\ pc = "call"
    /\ strategy' = generate_strategy(client, args.prompt, args.language, args.response, clock)
    /\ clock' = clock + 1
    /\ calls' = Append(calls, "generate_strategy")
    /\ io' = [io EXCEPT !.path = GeneratePath(client, args.response)]
    /\ pc' = "generated"
    /\ UNCHANGED <<client, files, i, validation, outcomes, args>>

ValidateGenerated ==
    /\ pc = "generated"
    /\ \E wr \in WriteOutcomes, lint \in LintOutcomes :
         /\ validation' = validate_strategy(strategy.code, strategy.language, wr, lint)
         /\ files' = ValidateFiles(files, strategy.code, strategy.language, wr, lint)
         /\ io' = [io EXCEPT !.wr = wr, !.lint = lint]
    /\ calls' = Append(calls, "validate_strategy")
    /\ pc' = "validated"
    /\ UNCHANGED <<client, clock, i, strategy, outcomes, args>>

NextGen == GenerateCall \/ ValidateGenerated

SpecGen == InitGen /\ [][NextGen]_vars

-----------------------------------------------------------------------------
(* validate_strategy called on any source text and language value *)

InitVal ==
    /\ client = FALSE
    /\ clock = 1
    /\ files = EmptyDir
    /\ pc = "call"
    /\ i = 0
    /\ strategy = NoStrategy
    /\ validation = FreshResults
    /\ outcomes = <<>>
    /\ calls = <<>>
    /\ args \in { [prompt |-> <<>>, language |-> l, response |-> Raises, code |-> c] :
                    l \in Languages, c \in ValTexts }
    /\ io = NoIo

ValidateCall ==
    /\ pc = "call"
    /\ \E wr \in WriteOutcomes, lint \in LintOutcomes :
         /\ validation' = validate_strategy(args.code, args.language, wr, lint)
         /\ files' = ValidateFiles(files, args.code, args.language, wr, lint)
         /\ io' = [io EXCEPT !.wr = wr, !.lint = lint]
    /\ calls' = Append(calls, "validate_strategy")
    /\ pc' = "validated"
    /\ UNCHANGED <<client, clock, i, strategy, outcomes, args>>

NextVal == ValidateCall

SpecVal == InitVal /\ [][NextVal]_vars

-----------------------------------------------------------------------------
(* save_strategy and validate_strategy called in any order, on one         *)
(* generator, with caller-supplied filename stems                          *)

Stems == {"strategy_1", "temp_validate"}

StoreTexts ==
    { <<"x">>,
      MarkerAlgorithmImports \o <<NL>> \o MarkerDefInitialize \o <<NL>> \o MarkerDefOnData }

InitStore ==
    /\ client = FALSE
    /\ clock = 1
    /\ files = EmptyDir
    /\ pc = "idle"
    /\ i = 0
    /\ strategy = NoStrategy
    /\ validation = FreshResults
    /\ outcomes = <<>>
    /\ calls = <<>>
    /\ args = NoArgs
    /\ io = NoIo

\* save_strategy(strategy, filename)
SaveCall ==
    /\ i < MaxCalls
    /\ \E filename \in Stems, language \in Dialects, code \in StoreTexts,
          save \in SaveOutcomes :
         LET artifact == Artifact(code, <<"momentum">>, language, clock)
         IN  /\ files' = save_strategy(files, artifact, filename, save)
             /\ strategy' = artifact
             /\ args' = [prompt |-> artifact.description, language |-> language,
                         response |-> Raises, code |-> code, filename |-> filename]
             /\ io' = [NoIo EXCEPT !.save = save]
    /\ calls' = <<"save_strategy">>
    /\ pc' = "saved"
    /\ i' = i + 1
    /\ UNCHANGED <<client, clock, validation, outcomes>>

\* validate_strategy(code, language)
ValidateStored ==
    /\ i < MaxCalls
    /\ \E code \in StoreTexts, language \in Dialects,
          wr \in WriteOutcomes, lint \in LintOutcomes :
         /\ validation' = validate_strategy(code, language, wr, lint)
         /\ files' = ValidateFiles(files, code, language, wr, lint)
         /\ args' = [prompt |-> <<>>, language |-> language, response |-> Raises,
                     code |-> code, filename |-> ""]
         /\ io' = [NoIo EXCEPT !.wr = wr, !.lint = lint]
    /\ calls' = <<"validate_strategy">>
    /\ pc' = "validated"
    /\ i' = i + 1
    /\ UNCHANGED <<client, clock, strategy, outcomes>>

NextStore == SaveCall \/ ValidateStored

SpecStore == InitStore /\ [][NextStore]_vars

-----------------------------------------------------------------------------
(* Properties *)

Returned == pc \in {"generated", "validated"}

Validated == pc = "validated"

\* C1: generate_strategy always returns an artifact whose code is not empty;
\* where the service path would give empty code the fallback is returned.
\* (Checked under SpecGen.)
C1_CodeNeverEmpty == Returned => strategy.code # <<>>

\* C2: the artifact of the fallback generator, for any prompt and either
\* dialect, holds every marker the validator looks for in that dialect, and
\* validate_strategy reports it valid, with no errors and score 100.
\* (Checked under SpecGen.)
C2_FallbackPassesValidation ==
    (Validated /\ io.path \in {"mock", "except"}) =>
        /\ args.language = "python" =>
              /\ Contains(strategy.code, MarkerAlgorithmImports)
              /\ Contains(strategy.code, MarkerQCAlgorithm)
              /\ Contains(strategy.code, MarkerDefInitialize)
              /\ Contains(strategy.code, MarkerDefOnData)
        /\ args.language = "csharp" =>
              /\ Contains(strategy.code, MarkerQCAlgorithm)
              /\ Contains(strategy.code, MarkerInitializeCall)
        /\ validation.valid
        /\ validation.errors = <<>>
        /\ validation.score = 100

C2_Witness ==
    /\ Validated
    /\ io.path = "mock"
    /\ args.language = "csharp"
    /\ args.prompt # <<>>
    /\ validation.valid
    /\ validation.score = 100

SameAt(f, g, path) ==
    /\ path \in DOMAIN f <=> path \in DOMAIN g
    /\ path \in DOMAIN f => f[path] = g[path]

C3_Iteration ==
    (pc = "loop" /\ i <= Len(prompts)) =>
        /\ Len(calls') >= 2
        /\ SubSeq(calls', 1, 2) = <<"generate_strategy", "validate_strategy">>
        /\ validation' = validate_strategy(strategy'.code, strategy'.language, io'.wr, io'.lint)
        /\ (\E k \in 1..Len(calls') : calls'[k] = "save_strategy") <=> validation'.valid
        /\ (\E k \in 1..Len(calls') : calls'[k] = "save_strategy") => calls'[3] = "save_strategy"
        /\ (validation'.valid /\ pc' # "crashed") =>
              /\ outcomes' = Append(outcomes, Saved(filepath(Stem(i), "python"), validation'.score))
              /\ filepath(Stem(i), "python") \in DOMAIN files'
              /\ files'[filepath(Stem(i), "python")] = SourceFile(strategy'.code)
              /\ meta_path(Stem(i)) \in DOMAIN files'
        /\ ~validation'.valid =>
              /\ outcomes' = Append(outcomes, Rejected(validation'.errors))
              /\ SameAt(files, files', filepath(Stem(i), "python"))
              /\ SameAt(files, files', filepath(Stem(i), "csharp"))
              /\ SameAt(files, files', meta_path(Stem(i)))

\* C3: each iteration of the batch loop generates, then validates, then
\* decides: save_strategy is called exactly when the report is valid (the
\* outcome is then Saved with the path and the score); when the report is not
\* valid the outcome is Rejected with the report's errors and the item's
\* source file and sidecar are neither created nor changed.
C3_SaveIffValid == [][C3_Iteration]_vars

C3_Witness ==
    /\ pc = "loop"
    /\ i = 2
    /\ outcomes[1].kind = "Rejected"
    /\ outcomes[1].errors # <<>>
    /\ files = StaleFiles
    /\ calls = <<"generate_strategy", "validate_strategy">>

\* C4: no item's failure aborts the batch: when the batch run has ended,
\* every prompt has an outcome, in the order of the prompts.
C4_EveryPromptGetsOutcome ==
    pc \in {"done", "crashed"} => Len(outcomes) = Len(prompts)

\* the error rules of a language, in rule order: <<violated, message>>
ErrorRules(code, language) ==
    IF language = "python"
    THEN << <<~Contains(code, MarkerAlgorithmImports) /\ ~Contains(code, MarkerQCAlgorithm),
              "Missing QuantConnect imports">>,
            <<~Contains(code, MarkerDefInitialize), "Missing Initialize method">> >>
    ELSE IF language = "csharp"
         THEN << <<~Contains(code, MarkerQCAlgorithm), "Missing QCAlgorithm base class">>,
                 <<~Contains(code, MarkerInitializeCall), "Missing Initialize method">> >>
         ELSE <<>>

IsViolated(rule) == rule[1]

ViolatedMessages(code, language) ==
    LET violated == SelectSeq(ErrorRules(code, language), IsViolated)
    IN  [k \in 1..Len(violated) |-> violated[k][2]]

\* C5: validate_strategy evaluates every rule of the dialect: errors holds,
\* in rule order, one entry for each violated error rule, and Python source
\* without 'def Initialize(' is always invalid with a non-empty errors list.
C5_AllRulesEvaluated ==
    Validated =>
        /\ validation.errors = ViolatedMessages(args.code, args.language)
        /\ (args.language = "python" /\ ~Contains(args.code, MarkerDefInitialize)) =>
              (~validation.valid /\ validation.errors # <<>>)

C5_Witness ==
    /\ Validated
    /\ args.language = "python"
    /\ validation.errors = <<"Missing QuantConnect imports", "Missing Initialize method">>
    /\ ~validation.valid

InitializeWithoutOnData ==
    /\ Validated
    /\ args.language = "python"
    /\ Contains(args.code, MarkerDefInitialize)
    /\ ~Contains(args.code, MarkerDefOnData)

\* C6 as stated: Python source with 'def Initialize(' and without
\* 'def OnData(' is reported valid, with score 80 and exactly one warning.
C6_Original ==
    InitializeWithoutOnData =>
        /\ validation.valid
        /\ validation.score = 80
        /\ Len(validation.warnings) = 1

HasImportMarker(code) ==
    Contains(code, MarkerAlgorithmImports) \/ Contains(code, MarkerQCAlgorithm)

LintReported == io.wr = "ok" /\ io.lint = "nonzero"

\* C6 amended: Python source with 'def Initialize(' and without 'def OnData('
\* gets score 80 and the warning "Missing OnData method" first; it is valid
\* exactly when it also holds an import marker (AlgorithmImports or
\* QCAlgorithm); the warnings are that one entry alone unless the lint tool
\* ran and exited non-zero, which adds "Linting issues found" as a second.
C6_Amended ==
    InitializeWithoutOnData =>
        /\ validation.valid <=> HasImportMarker(args.code)
        /\ validation.score = 80
        /\ validation.warnings =
              IF LintReported
              THEN <<"Missing OnData method", "Linting issues found">>
              ELSE <<"Missing OnData method">>

C6_Witness ==
    /\ InitializeWithoutOnData
    /\ HasImportMarker(args.code)
    /\ LintReported
    /\ validation.valid
    /\ validation.score = 80
    /\ Len(validation.warnings) = 2

\* C7: in every report of validate_strategy, for any source text and any
\* language value, valid holds exactly when errors is empty; warnings never
\* make a report invalid.
C7_ValidIffNoErrors ==
    Validated => (validation.valid <=> validation.errors = <<>>)

C7_Witness ==
    /\ Validated
    /\ validation.valid
    /\ validation.errors = <<>>
    /\ validation.warnings = <<"Missing OnData method", "Linting issues found">>

\* C8: when validate_strategy has finished, on any path (normal return, lint
\* tool missing, non-zero, timed out, or the write of the file failing), the
\* temporary file it writes for the lint step no longer exists.
C8_TempFileRemoved ==
    (Validated /\ args.language = "python") => temp_file \notin DOMAIN files

C8_Witness ==
    /\ Validated
    /\ args.language = "python"
    /\ io.wr = "partial"
    /\ temp_file \notin DOMAIN files

\* C9: every warning deducts from the score: a report with warnings has a
\* score below 100, and a report with score 100 has no warnings.
C9_EveryWarningDeducts ==
    Validated =>
        /\ validation.warnings # <<>> => validation.score < 100
        /\ validation.score = 100 => validation.warnings = <<>>

\* the first line of a text: what precedes its first newline
FirstLine(code) ==
    IF FirstIndex(code, NL) = 0 THEN code ELSE SubSeq(code, 1, FirstIndex(code, NL) - 1)

\* what C10 says is kept of the service text
KeptText(text, language) ==
    IF Contains(text, <<FENCE>>)
    THEN LET block == SplitSecond(text, FENCE)
         IN  IF FirstLine(block) = <<language>> THEN DropFirstLine(block) ELSE block
    ELSE text

\* C10: of a service text with a fenced block generate_strategy keeps the
\* content of the first fence, dropping its first line exactly when that line
\* is the bare tag of the requested dialect; a first line that is code, or the
\* tag of the other dialect, is kept, and text without a fence is kept whole.
\* (Checked under SpecGen.)
C10_TagLineDropped ==
    (Returned /\ io.path = "service") =>
        strategy.code = Strip(KeptText(args.response.text, args.language))

\* a step that is a call of validate_strategy leaves every file of the
\* output directory in place, with its content
ValidateStepKeepsFiles ==
    calls' = <<"validate_strategy">> =>
        \A path \in DOMAIN files :
            path \in DOMAIN files' /\ files'[path] = files[path]

\* C11: validate_strategy leaves every persisted record unchanged: whatever
\* the stems given to save_strategy (also 'temp_validate') and the dialect,
\* every source file and sidecar save_strategy wrote is still there, with
\* the same content, after any later validate_strategy call.
\* (Checked under SpecStore.)
C11_ValidateKeepsRecords == [][ValidateStepKeepsFiles]_vars

====
